---- MODULE Spec2Model ----
(***************************************************************************)
(* A model of amazoncaptcha/solver.py: the AmazonCaptcha class, its        *)
(* constructor and fromlink class method, and the solve pipeline           *)
(* (_monochrome, _find_letters, _save_letters, _translate, logging).       *)
(*                                                                         *)
(* An image is a record [mode, width, height, data] with data the          *)
(* row-major pixel sequence PIL's getdata() returns.  Python strings are   *)
(* sequences of one-character strings.  Python lists are sequences, so     *)
(* the 0-based index i of the source is the index i + 1 here.              *)
(***************************************************************************)
EXTENDS Integers, Sequences, FiniteSets, TLC

VARIABLES
    pc,            \* "idle", "raised", "ready", then solve's steps: "monochrome",
                   \* "found", "saved", "translated", "done" ("encode", "encoded"
                   \* for the encoder on its own)
    corpus,        \* training_data folder: symbol -> set of pseudo binaries
    content_type,  \* response.headers["Content-Type"] in fromlink
    via,           \* which entry point built the instance
    requested,     \* the devmode argument the caller passed
    img,           \* self.img
    devmode,       \* self.devmode
    image_link,    \* the value bound to __init__'s image_link parameter
    alphabet,      \* self.alphabet
    letters,       \* self.letters (key k of the dict is index k)
    result,        \* self.result: a dict, as its insertion-ordered items
    keep_logs,     \* solve's keep_logs argument
    place,         \* the position _translate's outer loop is at
    lookups,       \* the positions _translate has looked up, in order
    solution,      \* what _translate returned
    log,           \* the lines appended to logs_path
    glyphA,        \* encoder harness: first glyph
    glyphB,        \* encoder harness: second glyph
    encA,          \* encoder harness: pseudo binary of glyphA
    encB           \* encoder harness: pseudo binary of glyphB

vars == <<pc, corpus, content_type, via, requested, img, devmode, image_link,
          alphabet, letters, result, keep_logs, place, lookups, solution, log,
          glyphA, glyphB, encA, encB>>

None == "None"

-----------------------------------------------------------------------------
(* Module constants of solver.py *)

MONOWEIGHT == 1
MAXIMUM_LETTER_LENGTH == 33
MINIMUM_LETTER_LENGTH == 14
SUPPORTED_CONTENT_TYPES == {"image/jpeg"}

\* Image.new("L", (200, 70)) of _find_letters
PLACEHOLDER_WIDTH == 200
PLACEHOLDER_HEIGHT == 70

\* number of places of self.letters: zip(range(1, 7), letters)
PLACES == 6

\* "Not solved", the string _translate returns
NotSolved == <<"N", "o", "t", " ", "s", "o", "l", "v", "e", "d">>

Dash == "-"

-----------------------------------------------------------------------------
(* Bounds of the model *)

\* raw box counts 0 .. MaxBoxes are segmented
MaxBoxes == 8

\* the encoder harness draws glyphs of at most this many pixels
MaxGlyphArea == 4

-----------------------------------------------------------------------------
(* PIL images *)

FOREGROUND == 0
BACKGROUND == 255

Min(a, b) == IF a < b THEN a ELSE b

\* a list comprehension's value as a list: the same sequence, held as a tuple
List(f) == f \o <<>>

\* img.getpixel((x, y)), 0-based
GetPixel(im, x, y) == im.data[y * im.width + x + 1]

\* Image.new(mode, size): every pixel has the default colour 0
ImageNew(mode, w, h) ==
    [mode |-> mode, width |-> w, height |-> h, data |-> List([k \in 1..(w * h) |-> 0])]

\* img.crop((x0, y0, x1, y1))
Crop(im, x0, y0, x1, y1) ==
    LET w == x1 - x0
        h == y1 - y0
    IN [mode |-> im.mode, width |-> w, height |-> h,
        data |-> List([k \in 1..(w * h) |->
                    GetPixel(im, x0 + ((k - 1) % w), y0 + ((k - 1) \div w))])]

\* PIL's RGB -> L conversion (ITU-R 601-2 luma, 16 bit fixed point)
Luma(p) == (p[1] * 19595 + p[2] * 38470 + p[3] * 7471 + 32768) \div 65536

\* img.convert("L")
ConvertL(im) ==
    IF im.mode = "L" THEN im
    ELSE [im EXCEPT !.mode = "L",
                    !.data = List([k \in DOMAIN im.data |-> Luma(im.data[k])])]

\* lambda a: 0 if a <= MONOWEIGHT else 255
Threshold(a) == IF a <= MONOWEIGHT THEN 0 ELSE 255

\* _monochrome: convert to "L", then Image.eval with the threshold
Monochrome(im) ==
    LET g == ConvertL(im)
    IN [g EXCEPT !.data = List([k \in DOMAIN g.data |-> Threshold(g.data[k])])]

-----------------------------------------------------------------------------
(* utils.py: find_letter_boxes, merge_horizontally, cut_the_white *)

\* the k-th smallest element of a finite set of integers, k in 1..Cardinality(S)
Sorted(S) ==
    List([k \in 1..Cardinality(S) |->
            CHOOSE x \in S : Cardinality({y \in S : y < x}) = k - 1])

RECURSIVE Flatten(_)
Flatten(ss) == IF ss = <<>> THEN <<>> ELSE Head(ss) \o Flatten(Tail(ss))

\* column x holds at least one foreground pixel
InkColumn(im, x) == \E y \in 0..(im.height - 1) : GetPixel(im, x, y) = FOREGROUND

\* a run wider than maxlength, cut into the fewest equal parts that fit
SplitRun(s, e, maxlength) ==
    LET w == e - s
        n == (w + maxlength - 1) \div maxlength
    IN List([j \in 1..n |-> <<s + ((j - 1) * w) \div n, s + (j * w) \div n>>])

\* find_letter_boxes(img, maxlength): the maximal runs of ink columns, as
\* half-open column intervals, left to right, none wider than maxlength
find_letter_boxes(im, maxlength) ==
    LET xs     == 0..(im.width - 1)
        starts == Sorted({x \in xs : InkColumn(im, x)
                                     /\ (x = 0 \/ ~InkColumn(im, x - 1))})
        ends   == Sorted({x + 1 : x \in {x \in xs : InkColumn(im, x)
                                     /\ (x = im.width - 1 \/ ~InkColumn(im, x + 1))}})
    IN Flatten([k \in 1..Len(starts) |->
                  IF ends[k] - starts[k] <= maxlength
                  THEN << <<starts[k], ends[k]>> >>
                  ELSE SplitRun(starts[k], ends[k], maxlength)])

\* merge_horizontally(img1, img2): img1's columns, then img2's
merge_horizontally(img1, img2) ==
    LET w == img1.width + img2.width
        h == img1.height
    IN [mode |-> img1.mode, width |-> w, height |-> h,
        data |-> List([k \in 1..(w * h) |->
                    LET x == (k - 1) % w
                        y == (k - 1) \div w
                    IN IF x < img1.width THEN GetPixel(img1, x, y)
                       ELSE GetPixel(img2, x - img1.width, y)])]

\* cut_the_white(letter): the border rows and columns that are all background
\* are cut; a letter with no other pixel is cut to nothing
cut_the_white(letter) ==
    LET cols == {x \in 0..(letter.width - 1) :
                   \E y \in 0..(letter.height - 1) : GetPixel(letter, x, y) # BACKGROUND}
        rows == {y \in 0..(letter.height - 1) :
                   \E x \in 0..(letter.width - 1) : GetPixel(letter, x, y) # BACKGROUND}
        lo(S) == CHOOSE a \in S : \A b \in S : a <= b
        hi(S) == CHOOSE a \in S : \A b \in S : a >= b
    IN IF cols = {}
       THEN [mode |-> letter.mode, width |-> 0, height |-> 0, data |-> <<>>]
       ELSE IF Cardinality(cols) = letter.width /\ Cardinality(rows) = letter.height
            THEN letter   \* nothing to cut
            ELSE Crop(letter, lo(cols), lo(rows), hi(cols) + 1, hi(rows) + 1)

-----------------------------------------------------------------------------
(* _find_letters *)

\* letters = [self.img.crop((box[0], 0, box[1], self.img.height)) ...]
CropLetters(im, letter_boxes) ==
    List([i \in 1..Len(letter_boxes) |->
            Crop(im, letter_boxes[i][1], 0, letter_boxes[i][2], im.height)])

\* the condition without its test of the first letter's width
UnreliableCountOnly(ls) == Len(ls) # 6 /\ Len(ls) # 7

\* the condition without its test of the number of letters
UnreliableWidthOnly(ls) == Len(ls) = 6 /\ ls[1].width < MINIMUM_LETTER_LENGTH

\* the condition under which the cropped letters are thrown away
Unreliable(ls) ==
    \/ (Len(ls) = 6 /\ ls[1].width < MINIMUM_LETTER_LENGTH)
    \/ (Len(ls) # 6 /\ Len(ls) # 7)

\* letters = [Image.new("L", (200, 70)) for i in range(6)]
Placeholders ==
    List([i \in 1..6 |-> ImageNew("L", PLACEHOLDER_WIDTH, PLACEHOLDER_HEIGHT)])

\* the merge with its two halves the other way round
MergeWrappedSwapped(ls) ==
    IF Len(ls) = 7
    THEN Tail([ls EXCEPT ![7] = merge_horizontally(ls[1], ls[7])])
    ELSE ls

\* letters[6] = merge_horizontally(letters[6], letters[0]); del letters[0]
MergeWrapped(ls) ==
    IF Len(ls) = 7
    THEN Tail([ls EXCEPT ![7] = merge_horizontally(ls[7], ls[1])])
    ELSE ls

\* {str(k): v for k, v in zip(range(1, 7), letters)}
ZipPlaces(ls) == List([k \in 1..Min(PLACES, Len(ls)) |-> ls[k]])

\* the letters _find_letters gets from a list of raw boxes
LettersOf(im, letter_boxes) ==
    LET cropped == CropLetters(im, letter_boxes)
        kept    == IF Unreliable(cropped) THEN Placeholders ELSE cropped
        merged  == MergeWrapped(kept)
    IN ZipPlaces(List([i \in 1..Len(merged) |-> cut_the_white(merged[i])]))

FindLetters(im) == LettersOf(im, find_letter_boxes(im, MAXIMUM_LETTER_LENGTH))

-----------------------------------------------------------------------------
(* _save_letters *)

\* "".join(["1" if pix == 0 else "0" for pix in letter_data])
Bits(letter) ==
    List([k \in 1..Len(letter.data) |-> IF letter.data[k] = 0 THEN "1" ELSE "0"])

\* a run-length code whose run counter stops at 2
CompressCapped(s) ==
    IF s = <<>> THEN <<>>
    ELSE LET cuts == Sorted({i \in 1..Len(s) : i = 1 \/ s[i] # s[i - 1]})
             n    == Len(cuts)
         IN <<s[1]>> \o
            List([k \in 1..n |->
                ToString(Min(2, (IF k = n THEN Len(s) + 1 ELSE cuts[k + 1]) - cuts[k]))])

\* zlib.compress, as a run-length code: the first symbol, then the length of
\* every run.  Like zlib it is deterministic and can be inverted.
Compress(s) ==
    IF s = <<>> THEN <<>>
    ELSE LET cuts == Sorted({i \in 1..Len(s) : i = 1 \/ s[i] # s[i - 1]})
             n    == Len(cuts)
         IN <<s[1]>> \o
            List([k \in 1..n |->
                ToString((IF k = n THEN Len(s) + 1 ELSE cuts[k + 1]) - cuts[k])])

\* str(bytes): the text b'...'
Str(bytes) == <<"b'">> \o bytes \o <<"'">>

\* pseudo_binary = str(zlib.compress(letter_data_string.encode("utf-8")))
PseudoBinary(letter) == Str(Compress(Bits(letter)))

SaveLetters(ls) == List([k \in DOMAIN ls |-> PseudoBinary(ls[k])])

-----------------------------------------------------------------------------
(* _translate *)

\* a scan that keeps the last letter whose data holds the pseudo binary
RECURSIVE ScanLast(_, _, _)
ScanLast(pseudo_binary, letters_left, data) ==
    IF letters_left = <<>> THEN [found |-> FALSE, letter |-> Dash]
    ELSE LET later == ScanLast(pseudo_binary, Tail(letters_left), data)
         IN IF later.found THEN later
            ELSE IF pseudo_binary \in data[Head(letters_left)]
                 THEN [found |-> TRUE, letter |-> Head(letters_left)]
                 ELSE later

\* the inner loop: the first letter of the alphabet whose data holds the
\* pseudo binary; the for's else branch when there is none
RECURSIVE Scan(_, _, _)
Scan(pseudo_binary, letters_left, data) ==
    IF letters_left = <<>> THEN [found |-> FALSE, letter |-> Dash]
    ELSE IF pseudo_binary \in data[Head(letters_left)]
         THEN [found |-> TRUE, letter |-> Head(letters_left)]
         ELSE Scan(pseudo_binary, Tail(letters_left), data)

\* a run that gives up at any unrecognised letter, whatever devmode is
AbortsAlways(found, dm) == ~found

\* a run that never gives up
AbortsNever(found, dm) == FALSE

\* the for's else branch: if not self.devmode: return "Not solved"
Aborts(found, dm) == ~found /\ ~dm

\* self.result[place] = value, on a dict kept as its ordered items
DictSet(d, key, value) ==
    IF \E i \in DOMAIN d : d[i].key = key
    THEN List([i \in DOMAIN d |->
                IF d[i].key = key THEN [key |-> key, value |-> value] ELSE d[i]])
    ELSE Append(d, [key |-> key, value |-> value])

\* "".join(self.result.values())
JoinValues(d) == List([i \in DOMAIN d |-> d[i].value])

-----------------------------------------------------------------------------
(* The images handed to Image.open: RGB bitmaps two pixels high, drawn from  *)
(* a layout, a list of boxes of ink columns with one blank column around     *)
(* each.  A column is the list of its pixels, top to bottom, TRUE for ink.   *)

Top  == <<TRUE, FALSE>>
Both == <<TRUE, TRUE>>
Gap  == <<FALSE, FALSE>>

Black     == <<0, 0, 0>>
DarkRed   == <<3, 0, 0>>       \* luma 1: at the threshold, ink
DarkGreen == <<0, 3, 0>>       \* luma 2: just above the threshold, background
White     == <<255, 255, 255>>

\* w columns of the same kind
Run(w, column) == List([i \in 1..w |-> column])

\* the image of a layout
Render(boxes, ink, paper) ==
    LET columns == <<Gap>> \o Flatten([i \in 1..Len(boxes) |-> boxes[i] \o <<Gap>>])
        w == Len(columns)
        h == Len(Gap)
    IN [mode |-> "RGB", width |-> w, height |-> h,
        data |-> List([k \in 1..(w * h) |->
                    IF columns[((k - 1) % w) + 1][((k - 1) \div w) + 1]
                    THEN ink ELSE paper])]

\* a glyph the corpus knows (TRUE) or does not know (FALSE), w columns wide
Glyph(known, w) == Run(w, IF known THEN Top ELSE Both)

\* six boxes, the first of the minimum width, each known or not
SixBoxes(known) ==
    [i \in 1..6 |-> Glyph(known[i], IF i = 1 THEN MINIMUM_LETTER_LENGTH ELSE 1)]

\* seven boxes: the first and the last are the two halves of one letter
SevenBoxes(known) ==
    << <<Top, Both>> >> \o [i \in 1..5 |-> Glyph(known[i], 1)] \o << <<Top>> >>

\* n boxes, the first w columns wide
CountBoxes(n, w) == [i \in 1..n |-> Glyph(TRUE, IF i = 1 THEN w ELSE 1)]

Images ==
    {Render(SixBoxes(known), Black, White) : known \in [1..6 -> BOOLEAN]}
    \cup {Render(SixBoxes([i \in 1..6 |-> TRUE]), DarkRed, DarkGreen)}
    \cup {Render(SevenBoxes(known), Black, White) :
            known \in {[i \in 1..5 |-> TRUE], [i \in 1..5 |-> i % 2 = 0]}}
    \cup {Render(CountBoxes(n, MINIMUM_LETTER_LENGTH), Black, White) : n \in 0..MaxBoxes}
    \cup {Render(CountBoxes(6, MINIMUM_LETTER_LENGTH - 1), Black, White)}
    \cup {Render(CountBoxes(5, MAXIMUM_LETTER_LENGTH + 1), Black, White)}

-----------------------------------------------------------------------------
(* The training_data folder: one file per symbol, holding the pseudo        *)
(* binaries of the letters seen for it.                                     *)

\* a monochrome letter of w by h pixels, all ink
Solid(w, h) == ImageNew("L", w, h)

\* the letter the two halves of SevenBoxes make: columns Top, Top, Both
Wrapped ==
    [mode |-> "L", width |-> 3, height |-> 2,
     data |-> <<0, 0, 0, 255, 255, 0>>]

Corpora ==
    { [A |-> {PseudoBinary(Solid(MINIMUM_LETTER_LENGTH, 1)), PseudoBinary(Solid(17, 1))},
       B |-> {PseudoBinary(Solid(1, 1)), PseudoBinary(Wrapped)}],
      [A |-> {PseudoBinary(Solid(MINIMUM_LETTER_LENGTH, 1)), PseudoBinary(Solid(1, 1))},
       B |-> {PseudoBinary(Solid(1, 1))}],
      [A |-> {},
       B |-> {PseudoBinary(Solid(PLACEHOLDER_WIDTH, PLACEHOLDER_HEIGHT))}] }

\* os.listdir(training_data_folder): the names, in arbitrary order
Listings(data) ==
    {a \in [1..Cardinality(DOMAIN data) -> DOMAIN data] :
        \A i, j \in DOMAIN a : i # j => a[i] # a[j]}

\* the images the links answer with
LinkImages ==
    {Render(SixBoxes(known), Black, White) :
        known \in {[i \in 1..6 |-> TRUE], [i \in 1..6 |-> i \notin {3, 5}]}}
    \cup {Render(SevenBoxes([i \in 1..5 |-> TRUE]), Black, White)}
    \cup {Render(CountBoxes(3, MINIMUM_LETTER_LENGTH), Black, White)}

ContentTypes == {"image/jpeg", "image/png", "text/html"}

-----------------------------------------------------------------------------
(* The program *)

Init ==
    /\ pc = "idle"
    /\ corpus \in Corpora
    /\ content_type = None
    /\ via = None
    /\ requested = None
    /\ img = None
    /\ devmode = None
    /\ image_link = None
    /\ alphabet = <<>>
    /\ letters = <<>>
    /\ result = <<>>
    /\ keep_logs = None
    /\ place = 1
    /\ lookups = <<>>
    /\ solution = None
    /\ log = <<>>
    /\ glyphA = None
    /\ glyphB = None
    /\ encA = None
    /\ encB = None

harness == <<glyphA, glyphB, encA, encB>>

\* __init__(self, img, image_link=None, devmode=False)
AmazonCaptchaInit(image, link, dm) ==
    /\ img' = image
    /\ devmode' = dm
    /\ image_link' = link
    /\ letters' = <<>>
    /\ result' = <<>>
    /\ \E a \in Listings(corpus) : alphabet' = a

\* AmazonCaptcha(img, devmode=dm)
Construct ==
    /\ pc = "idle"
    /\ \E image \in Images, dm \in BOOLEAN :
        /\ AmazonCaptchaInit(image, None, dm)
        /\ requested' = dm
    /\ via' = "constructor"
    /\ pc' = "ready"
    /\ UNCHANGED <<corpus, content_type, keep_logs, place, lookups, solution, log, harness>>

\* a check that lets every image type through
SupportedAnyImage(ct) == ct \in {"image/jpeg", "image/png"}

\* response.headers["Content-Type"] in SUPPORTED_CONTENT_TYPES
Supported(ct) == ct \in SUPPORTED_CONTENT_TYPES

\* AmazonCaptcha.fromlink(image_link, devmode=dm): the response carries a
\* content type and an image; cls(image_bytes_array, devmode) passes devmode
\* as the second positional argument
FromLink ==
    /\ pc = "idle"
    /\ \E ct \in ContentTypes, image \in LinkImages, dm \in BOOLEAN :
        /\ content_type' = ct
        /\ requested' = dm
        /\ IF ~Supported(ct)
           THEN /\ pc' = "raised"
                /\ UNCHANGED <<img, devmode, image_link, letters, result, alphabet>>
           ELSE /\ AmazonCaptchaInit(image, dm, FALSE)
                /\ pc' = "ready"
    /\ via' = "fromlink"
    /\ UNCHANGED <<corpus, keep_logs, place, lookups, solution, log, harness>>

\* solve(keep_logs=kl): self._monochrome()
SolveMonochrome ==
    /\ pc = "ready"
    /\ \E kl \in BOOLEAN : keep_logs' = kl
    /\ img' = Monochrome(img)
    /\ pc' = "monochrome"
    /\ UNCHANGED <<corpus, content_type, via, requested, devmode, image_link, alphabet,
                   letters, result, place, lookups, solution, log, harness>>

\* solve: self._find_letters()
SolveFindLetters ==
    /\ pc = "monochrome"
    /\ letters' = FindLetters(img)
    /\ pc' = "found"
    /\ UNCHANGED <<corpus, content_type, via, requested, img, devmode, image_link,
                   alphabet, result, keep_logs, place, lookups, solution, log, harness>>

\* solve: self._save_letters()
SolveSaveLetters ==
    /\ pc = "found"
    /\ letters' = SaveLetters(letters)
    /\ pc' = "saved"
    /\ UNCHANGED <<corpus, content_type, via, requested, img, devmode, image_link,
                   alphabet, result, keep_logs, place, lookups, solution, log, harness>>

\* _translate: one turn of the outer loop, for self.letters' item at place
TranslatePlace ==
    /\ pc = "saved"
    /\ place <= Len(letters)
    /\ LET match == Scan(letters[place], alphabet, corpus)
       IN /\ result' = DictSet(result, place, match.letter)
          /\ lookups' = Append(lookups, place)
          /\ IF Aborts(match.found, devmode)
             THEN /\ solution' = NotSolved
                  /\ pc' = "translated"
                  /\ place' = place
             ELSE /\ place' = place + 1
                  /\ UNCHANGED <<solution, pc>>
    /\ UNCHANGED <<corpus, content_type, via, requested, img, devmode, image_link,
                   alphabet, letters, keep_logs, log, harness>>

\* _translate: the loop is over, return "".join(self.result.values())
TranslateReturn ==
    /\ pc = "saved"
    /\ place > Len(letters)
    /\ solution' = JoinValues(result)
    /\ pc' = "translated"
    /\ UNCHANGED <<corpus, content_type, via, requested, img, devmode, image_link,
                   alphabet, letters, result, keep_logs, place, lookups, log, harness>>

\* a log kept of every solution with an unrecognised letter
ShouldLogAnyDash(sol, kl) ==
    kl /\ (sol = NotSolved \/ \E i \in DOMAIN sol : sol[i] = Dash)

\* if solution == "Not solved" and keep_logs
ShouldLog(sol, kl) == sol = NotSolved /\ kl

\* solve: the log is appended to when the solution is "Not solved" and
\* keep_logs is set; return solution
SolveLog ==
    /\ pc = "translated"
    /\ log' = IF ShouldLog(solution, keep_logs) THEN Append(log, "\n") ELSE log
    /\ pc' = "done"
    /\ UNCHANGED <<corpus, content_type, via, requested, img, devmode, image_link,
                   alphabet, letters, result, keep_logs, place, lookups, solution, harness>>

\* the steps of solve
Solve ==
    \/ SolveMonochrome
    \/ SolveFindLetters
    \/ SolveSaveLetters
    \/ TranslatePlace
    \/ TranslateReturn
    \/ SolveLog

Next ==
    \/ Construct
    \/ FromLink
    \/ Solve

Spec == Init /\ [][Next]_vars

-----------------------------------------------------------------------------
(* The encoder on its own: _save_letters' transformation applied to two      *)
(* letters as cut_the_white leaves them.                                     *)

\* the shapes and the monochrome letters of at most MaxGlyphArea pixels
Shapes ==
    {sh \in (1..MaxGlyphArea) \X (1..MaxGlyphArea) : sh[1] * sh[2] <= MaxGlyphArea}

Glyphs ==
    UNION {
        {[mode |-> "L", width |-> sh[1], height |-> sh[2], data |-> List(d)] :
            d \in [1..(sh[1] * sh[2]) -> {FOREGROUND, BACKGROUND}]} :
        sh \in Shapes }

TrimmedGlyphs == {g \in Glyphs : cut_the_white(g) = g}

InitEncode ==
    /\ pc = "encode"
    /\ glyphA \in TrimmedGlyphs
    /\ glyphB \in TrimmedGlyphs
    /\ encA = None
    /\ encB = None
    /\ corpus = None
    /\ content_type = None
    /\ via = None
    /\ requested = None
    /\ img = None
    /\ devmode = None
    /\ image_link = None
    /\ alphabet = <<>>
    /\ letters = <<>>
    /\ result = <<>>
    /\ keep_logs = None
    /\ place = 1
    /\ lookups = <<>>
    /\ solution = None
    /\ log = <<>>

\* the body of _save_letters' loop, for each of the two letters
EncodePair ==
    /\ pc = "encode"
    /\ encA' = PseudoBinary(glyphA)
    /\ encB' = PseudoBinary(glyphB)
    /\ pc' = "encoded"
    /\ UNCHANGED <<corpus, content_type, via, requested, img, devmode, image_link,
                   alphabet, letters, result, keep_logs, place, lookups, solution, log,
                   glyphA, glyphB>>

NextEncode == EncodePair

SpecEncode == InitEncode /\ [][NextEncode]_vars

-----------------------------------------------------------------------------
(* Claims *)

\* C7 (as stated): two trimmed letters have the same pseudo binary if and
\* only if they are the same pixel grid, dimensions included.
C7_Original ==
    pc = "encoded" => ((encA = encB) <=> (glyphA = glyphB))

\* C7 (amended): two trimmed letters have the same pseudo binary if and only
\* if their row-major pixel sequences are the same; the dimensions are not
\* encoded, so letters of different shape can share a pseudo binary.
C7_SamePixelSequence ==
    pc = "encoded" => ((encA = encB) <=> (glyphA.data = glyphB.data))

\* two letters of different shape with the same pseudo binary
C7_Witness ==
    /\ pc = "encoded"
    /\ glyphA.data = glyphB.data
    /\ glyphA.width # glyphB.width
    /\ encA = encB

-----------------------------------------------------------------------------
(* Vocabulary of the claims about the pipeline *)

\* the pipeline has encoded the letters: self.letters holds pseudo binaries
Encoded == pc \in {"saved", "translated", "done"}

\* no symbol of the corpus knows the pseudo binary at position i
Unresolved(i) == \A sym \in DOMAIN corpus : letters[i] \notin corpus[sym]

SomeUnresolved == \E i \in 1..Len(letters) : Unresolved(i)

\* the raw boxes of the monochrome image, and the letters cropped from them
RawBoxes == find_letter_boxes(img, MAXIMUM_LETTER_LENGTH)
RawLetters == CropLetters(img, RawBoxes)

\* the segmentation the spec calls unreliable
Malformed ==
    \/ Len(RawBoxes) \notin {6, 7}
    \/ (Len(RawBoxes) = 6 /\ RawBoxes[1][2] - RawBoxes[1][1] < MINIMUM_LETTER_LENGTH)

\* the symbols in alphabetical order
Alphabetical == <<"A", "B">>

SixDashes == <<Dash, Dash, Dash, Dash, Dash, Dash>>

\* the value self.result holds for a place
ResultAt(i) == (CHOOSE r \in {result[k] : k \in DOMAIN result} : r.key = i).value

-----------------------------------------------------------------------------
\* C1: with devmode false, a solve with an Unresolved glyph returns
\* "Not solved", and no position after the first Unresolved one is looked up.
C1_ShortCircuit ==
    (Encoded /\ devmode = FALSE) =>
        /\ \A j \in DOMAIN lookups : \A i \in 1..Len(letters) :
              Unresolved(i) => lookups[j] <= i
        /\ (pc = "done" /\ SomeUnresolved) => solution = NotSolved

\* glyph 3 is the first Unresolved one: positions 1, 2, 3 were looked up
C1_Witness ==
    /\ pc = "done"
    /\ devmode = FALSE
    /\ ~Unresolved(1) /\ ~Unresolved(2) /\ Unresolved(3) /\ ~Unresolved(4)
    /\ lookups = <<1, 2, 3>>
    /\ solution = NotSolved

\* C2: with devmode true all 6 positions are looked up and the solution has
\* 6 characters: a dash where the glyph is Unresolved, and otherwise a symbol
\* that knows the glyph.
C2_DevmodePlaceholders ==
    (pc = "done" /\ devmode = TRUE) =>
        /\ lookups = <<1, 2, 3, 4, 5, 6>>
        /\ Len(solution) = 6
        /\ \A i \in 1..6 :
              IF Unresolved(i) THEN solution[i] = Dash
              ELSE /\ solution[i] \in DOMAIN corpus
                   /\ letters[i] \in corpus[solution[i]]

\* Unresolved at exactly positions 3 and 5
C2_Witness ==
    /\ pc = "done"
    /\ devmode = TRUE
    /\ {i \in 1..6 : Unresolved(i)} = {3, 5}
    /\ solution = <<"A", "B", Dash, "B", Dash, "B">>

\* C3 (as stated): from 7 raw boxes b1..b7 the segmenter returns 6 glyphs,
\* position 1 the (trimmed) concatenation of b7 then b1, positions 2..6 the
\* (trimmed) boxes b2..b6.
C3_Original ==
    (pc = "found" /\ Len(RawBoxes) = 7) =>
        /\ Len(letters) = 6
        /\ letters[1] = cut_the_white(merge_horizontally(RawLetters[7], RawLetters[1]))
        /\ \A i \in 2..6 : letters[i] = cut_the_white(RawLetters[i])

\* C3 (amended): from 7 raw boxes b1..b7 the segmenter returns 6 glyphs,
\* positions 1..5 the (trimmed) boxes b2..b6 and position 6 the (trimmed)
\* concatenation of b7 then b1.
C3_MergeAtLastPlace ==
    (pc = "found" /\ Len(RawBoxes) = 7) =>
        /\ Len(letters) = 6
        /\ \A i \in 1..5 : letters[i] = cut_the_white(RawLetters[i + 1])
        /\ letters[6] = cut_the_white(merge_horizontally(RawLetters[7], RawLetters[1]))

\* seven raw boxes, the halves Top and Top-Both: place 6 holds Top-Top-Both
C3_Witness ==
    /\ pc = "found"
    /\ Len(RawBoxes) = 7
    /\ letters[6] = Wrapped
    /\ letters[1] = Solid(1, 1)

\* C4 (as stated): a malformed segmentation gives 6 placeholders of 200 by
\* 70 pixels, all of them background, and every position is Unresolved.
C4_Original ==
    (pc = "found" /\ Malformed) =>
        /\ Len(letters) = 6
        /\ \A i \in 1..6 :
              /\ letters[i].width = PLACEHOLDER_WIDTH
              /\ letters[i].height = PLACEHOLDER_HEIGHT
              /\ \A k \in DOMAIN letters[i].data : letters[i].data[k] = BACKGROUND

\* C4 (amended): a malformed segmentation gives 6 placeholders of 200 by 70
\* pixels, all of them 0, the ink value; every position looked up is then
\* Unresolved unless the corpus knows the pseudo binary of that solid letter.
C4_SolidPlaceholders ==
    /\ (pc = "found" /\ Malformed) =>
          /\ Len(letters) = 6
          /\ \A i \in 1..6 :
                /\ letters[i].width = PLACEHOLDER_WIDTH
                /\ letters[i].height = PLACEHOLDER_HEIGHT
                /\ Len(letters[i].data) = PLACEHOLDER_WIDTH * PLACEHOLDER_HEIGHT
                /\ \A k \in DOMAIN letters[i].data : letters[i].data[k] = FOREGROUND
    /\ (Encoded /\ Malformed) =>
          /\ \A i \in 1..6 : letters[i] = <<"b'", "1", "14000", "'">>
          /\ (\A sym \in DOMAIN corpus : <<"b'", "1", "14000", "'">> \notin corpus[sym])
                => \A k \in DOMAIN result : result[k].value = Dash

\* six raw boxes with a first box one column too narrow, solved in devmode
C4_Witness ==
    /\ pc = "done"
    /\ Len(RawBoxes) = 6
    /\ Malformed
    /\ devmode = TRUE
    /\ solution = SixDashes

\* C5: an instance made by fromlink(image_link, devmode=True) solves in
\* devmode: the devmode argument reaches the instance's flag, and with an
\* Unresolved glyph the solution is the 6 characters with dashes.
C5_FromLinkDevmode ==
    (via = "fromlink" /\ pc \notin {"idle", "raised"}) =>
        /\ devmode = requested
        /\ (pc = "done" /\ requested = TRUE /\ SomeUnresolved) =>
              (Len(solution) = 6 /\ solution # NotSolved)

\* C6: whatever the raw boxes and the corpus, in either devmode, solve
\* looks up at most 6 places and returns "Not solved" or 6 characters, with
\* a dash only in devmode.
C6_WellFormed ==
    /\ Len(lookups) <= 6
    /\ pc \in {"translated", "done"} =>
          /\ solution = NotSolved \/ Len(solution) = 6
          /\ (\E i \in DOMAIN solution : solution[i] = Dash)
                => (devmode = TRUE /\ requested = TRUE)

\* the most raw boxes, solved in devmode
C6_Witness ==
    /\ pc = "done"
    /\ Len(RawBoxes) = MaxBoxes
    /\ devmode = TRUE
    /\ solution = SixDashes

\* C8: fromlink raises ContentTypeError for a content type outside the
\* supported set, with no instance made and no stage run, and raises nothing
\* for a supported one.
C8_ContentType ==
    /\ (via = "fromlink" /\ content_type \notin {"image/jpeg"}) =>
          /\ pc = "raised"
          /\ img = None /\ devmode = None /\ alphabet = <<>>
          /\ letters = <<>> /\ result = <<>> /\ lookups = <<>>
          /\ solution = None /\ log = <<>>
    /\ pc = "raised" => (via = "fromlink" /\ content_type # "image/jpeg")

\* a text/html response: ContentTypeError, and no instance
C8_Witness ==
    /\ pc = "raised"
    /\ content_type = "text/html"
    /\ img = None

\* C9 (as stated): the matcher returns the alphabetically first symbol that
\* knows the pseudo binary, and a dash exactly when no symbol knows it.
C9_Original ==
    Encoded =>
        \A i \in DOMAIN lookups :
            LET holders == {k \in DOMAIN Alphabetical :
                               letters[lookups[i]] \in corpus[Alphabetical[k]]}
            IN IF holders = {} THEN ResultAt(lookups[i]) = Dash
               ELSE ResultAt(lookups[i]) =
                       Alphabetical[CHOOSE k \in holders : \A m \in holders : k <= m]

\* C9 (amended): the matcher goes through the symbols in the order the
\* directory listing gave, whatever it is, and returns the first one that
\* knows the pseudo binary, and a dash exactly when no symbol knows it.
C9_ListingOrder ==
    Encoded =>
        /\ {alphabet[k] : k \in DOMAIN alphabet} = DOMAIN corpus
        /\ \A i \in DOMAIN lookups :
            LET holders == {k \in DOMAIN alphabet :
                               letters[lookups[i]] \in corpus[alphabet[k]]}
            IN IF holders = {} THEN ResultAt(lookups[i]) = Dash
               ELSE ResultAt(lookups[i]) =
                       alphabet[CHOOSE k \in holders : \A m \in holders : k <= m]

\* a pseudo binary known to both symbols, resolved to the one listed first
C9_Witness ==
    /\ pc = "done"
    /\ alphabet = <<"B", "A">>
    /\ devmode = TRUE
    /\ letters[2] \in corpus["A"] \cap corpus["B"]
    /\ ResultAt(2) = "B"

\* C10 (as stated): the log gets a record exactly when keep_logs is set and
\* some glyph is Unresolved, in either devmode.
C10_Original ==
    pc = "done" => ((log # <<>>) <=> (keep_logs /\ SomeUnresolved))

\* C10 (amended): the log gets a record exactly when keep_logs is set and the
\* solution is "Not solved", that is when the instance's devmode is false and
\* some glyph is Unresolved; the solution does not depend on keep_logs.
C10_LogWhenNotSolved ==
    /\ pc # "done" => log = <<>>
    /\ pc = "done" =>
          /\ log = IF keep_logs /\ solution = NotSolved THEN <<"\n">> ELSE <<>>
          /\ (solution = NotSolved) <=> (devmode = FALSE /\ SomeUnresolved)
          /\ solution # NotSolved =>
                solution = [i \in 1..6 |-> Scan(letters[i], alphabet, corpus).letter]

\* a devmode solve with dashes and keep_logs set leaves the log empty
C10_Witness ==
    /\ pc = "done"
    /\ keep_logs = TRUE
    /\ devmode = TRUE
    /\ SomeUnresolved
    /\ log = <<>>

====
